---- MODULE Spec2Model ----
(***************************************************************************)
(* A model of package rest of adgear/gorest:                               *)
(*   route.go   Route: NewRoute / Init / init, parseArg, isNil, invoke     *)
(*   mux.go     Mux: Init / init, AddRoute, route, respondError, ServeHTTP *)
(*   client.go  Request.Send and Response.GetBody                          *)
(* Strings and byte slices are sequences of one-character strings, so that *)
(* prefix tests, trimming, splitting and number parsing are computed.      *)
(* Path (NewPath, NumArgs) and the router (Add, Route) are not among the   *)
(* source files; they are modelled from the specification's section 4.     *)
(***************************************************************************)
EXTENDS Integers, Sequences, FiniteSets, TLC

\* ------------------------------------------------------------ bounds
MaxRoutes == 2
MaxCallers == 2
MaxPathArgs == 2
MaxIn == 3

\* ------------------------------------------------------------ strings
HasPrefix(s, p) == Len(p) <= Len(s) /\ SubSeq(s, 1, Len(p)) = p

RECURSIVE TrimLeft(_, _)
TrimLeft(s, c) == IF s # <<>> /\ Head(s) = c THEN TrimLeft(Tail(s), c) ELSE s

RECURSIVE TrimRight(_, _)
TrimRight(s, c) ==
    IF s # <<>> /\ s[Len(s)] = c THEN TrimRight(SubSeq(s, 1, Len(s) - 1), c) ELSE s

Trim(s, c) == TrimRight(TrimLeft(s, c), c)

RECURSIVE SplitLoop(_, _, _)
SplitLoop(s, cur, acc) ==
    IF s = <<>> THEN (IF cur = <<>> THEN acc ELSE Append(acc, cur))
    ELSE IF Head(s) = "/"
         THEN SplitLoop(Tail(s), <<>>, IF cur = <<>> THEN acc ELSE Append(acc, cur))
         ELSE SplitLoop(Tail(s), Append(cur, Head(s)), acc)

\* The non-empty segments of a path, in order.
Split(s) == SplitLoop(s, <<>>, <<>>)

Digits == {"0", "1", "2", "3", "4", "5", "6", "7", "8", "9"}

DigitVal(c) ==
    CASE c = "0" -> 0 [] c = "1" -> 1 [] c = "2" -> 2 [] c = "3" -> 3 [] c = "4" -> 4
      [] c = "5" -> 5 [] c = "6" -> 6 [] c = "7" -> 7 [] c = "8" -> 8 [] c = "9" -> 9

AllDigits(s) == s # <<>> /\ \A i \in DOMAIN s : s[i] \in Digits

RECURSIVE Atoi(_, _)
Atoi(s, acc) == IF s = <<>> THEN acc ELSE Atoi(Tail(s), acc * 10 + DigitVal(Head(s)))

RECURSIVE Itoa(_)
Itoa(n) ==
    LET d == CHOOSE c \in Digits : DigitVal(c) = n % 10
    IN IF n < 10 THEN <<d>> ELSE Append(Itoa(n \div 10), d)

\* ------------------------------------------------------------ errors
\* A Go error value: nil, a plain error, or a *CodedError{Code, Sub}.
NilErr == [kind |-> "nil", msg |-> "", code |-> 0]
PlainErr(m) == [kind |-> "plain", msg |-> m, code |-> 0]
CodedErr(c, m) == [kind |-> "coded", msg |-> m, code |-> c]

\* A *rest.Error{Type, Sub}; NoError is the nil *Error.
RestError(t, e) == [Type |-> t, Sub |-> e]
NoError == RestError("", NilErr)

\* ------------------------------------------------------------ values
\* A reflect.Value: its Kind and its content.
Val(k, v) == [kind |-> k, val |-> v]

IntKinds == {"int8", "int16"}
UintKinds == {"uint8"}
FloatKinds == {"float64"}

Bits(k) == CASE k = "int8" -> 8 [] k = "uint8" -> 8 [] k = "int16" -> 16 [] k = "float64" -> 64

\* reflect.New(t).Elem(): the zero value of a type.
Zero(k) ==
    CASE k = "string" -> Val(k, <<>>)
      [] k = "bool" -> Val(k, FALSE)
      [] k \in IntKinds \cup UintKinds -> Val(k, 0)
      [] k \in FloatKinds -> Val(k, <<0, <<>>>>)
      [] k = "struct" -> Val(k, "zero")
      [] OTHER -> Val(k, "nil")

ParsedOk(v) == [err |-> NilErr, value |-> v]
ParsedErr(k, m) == [err |-> PlainErr(m), value |-> Zero(k)]

\* strconv.ParseBool
ParseBool(s) ==
    IF s \in {<<"1">>, <<"t">>, <<"T">>, <<"t", "r", "u", "e">>,
              <<"T", "R", "U", "E">>, <<"T", "r", "u", "e">>}
    THEN ParsedOk(Val("bool", TRUE))
    ELSE IF s \in {<<"0">>, <<"f">>, <<"F">>, <<"f", "a", "l", "s", "e">>,
                   <<"F", "A", "L", "S", "E">>, <<"F", "a", "l", "s", "e">>}
    THEN ParsedOk(Val("bool", FALSE))
    ELSE ParsedErr("bool", "invalid syntax")

\* strconv.ParseInt(s, 10, bits)
ParseInt(s, k) ==
    LET signed == s # <<>> /\ Head(s) \in {"+", "-"}
        body == IF signed THEN Tail(s) ELSE s
        mag == Atoi(body, 0)
        n == IF signed /\ Head(s) = "-" THEN 0 - mag ELSE mag
    IN IF ~AllDigits(body) THEN ParsedErr(k, "invalid syntax")
       ELSE IF n < 0 - 2 ^ (Bits(k) - 1) \/ n > 2 ^ (Bits(k) - 1) - 1
            THEN ParsedErr(k, "value out of range")
            ELSE ParsedOk(Val(k, n))

\* strconv.ParseUint(s, 10, bits)
ParseUint(s, k) ==
    IF ~AllDigits(s) THEN ParsedErr(k, "invalid syntax")
    ELSE IF Atoi(s, 0) > 2 ^ Bits(k) - 1 THEN ParsedErr(k, "value out of range")
    ELSE ParsedOk(Val(k, Atoi(s, 0)))

\* strconv.ParseFloat on decimal notation (sign, digits, optional fraction);
\* the value is kept as the signed integer part and the fraction digits.
ParseFloat(s, k) ==
    LET signed == s # <<>> /\ Head(s) \in {"+", "-"}
        body == IF signed THEN Tail(s) ELSE s
        dots == {i \in DOMAIN body : body[i] = "."}
        dot == IF dots = {} THEN Len(body) + 1 ELSE CHOOSE i \in dots : \A j \in dots : i <= j
        ip == SubSeq(body, 1, dot - 1)
        fp == SubSeq(body, dot + 1, Len(body))
        good == /\ Cardinality(dots) <= 1
                /\ ip \o fp # <<>>
                /\ \A i \in DOMAIN (ip \o fp) : (ip \o fp)[i] \in Digits
        mag == Atoi(ip, 0)
    IN IF ~good THEN ParsedErr(k, "invalid syntax")
       ELSE ParsedOk(Val(k, <<IF signed /\ Head(s) = "-" THEN 0 - mag ELSE mag, fp>>))

\* ------------------------------------------------------------ JSON
JSONKind(b) ==
    IF b = <<>> THEN "eof"
    ELSE IF AllDigits(b) \/ (Head(b) = "-" /\ AllDigits(Tail(b))) THEN "number"
    ELSE IF Len(b) >= 2 /\ Head(b) = "\"" /\ b[Len(b)] = "\""
            /\ \A i \in 2..(Len(b) - 1) : b[i] \notin {"\"", "\\"} THEN "string"
    ELSE IF b = <<"{", "}">> THEN "object"
    ELSE IF b = <<"n", "u", "l", "l">> THEN "null"
    ELSE "syntax"

\* json.NewDecoder(bytes.NewReader(b)).Decode(&v) for v of kind k.
Decode(b, k) ==
    LET j == JSONKind(b)
        mismatch == ParsedErr(k, "json: cannot unmarshal " \o j \o " into Go value")
    IN CASE j = "eof" -> ParsedErr(k, "EOF")
         [] j = "syntax" -> ParsedErr(k, "invalid character")
         [] j = "null" -> ParsedOk(Zero(k))
         [] j = "number" ->
              IF k \in IntKinds
              THEN (IF ParseInt(b, k).err = NilErr THEN ParseInt(b, k) ELSE mismatch)
              ELSE IF k \in UintKinds
              THEN (IF ParseUint(b, k).err = NilErr THEN ParseUint(b, k) ELSE mismatch)
              ELSE IF k \in FloatKinds THEN ParseFloat(b, k)
              ELSE IF k = "interface" THEN ParsedOk(Val(k, "number"))
              ELSE mismatch
         [] j = "string" ->
              IF k = "string" THEN ParsedOk(Val(k, SubSeq(b, 2, Len(b) - 1)))
              ELSE IF k = "interface" THEN ParsedOk(Val(k, "string"))
              ELSE mismatch
         [] j = "object" ->
              IF k = "struct" THEN ParsedOk(Val(k, "zero"))
              ELSE IF k \in {"ptr", "interface"} THEN ParsedOk(Val(k, "item"))
              ELSE mismatch

Encoded(b) == [err |-> NilErr, bytes |-> b]

\* json.NewEncoder(w).Encode(v): the JSON text and a newline, or an error.
Encode(v) ==
    CASE v.kind = "string" -> Encoded(<<"\"">> \o v.val \o <<"\"", "\n">>)
      [] v.kind = "bool" ->
           Encoded(IF v.val THEN <<"t", "r", "u", "e", "\n">>
                   ELSE <<"f", "a", "l", "s", "e", "\n">>)
      [] v.kind \in IntKinds \cup UintKinds ->
           Encoded((IF v.val < 0 THEN <<"-">> \o Itoa(0 - v.val) ELSE Itoa(v.val)) \o <<"\n">>)
      [] v.kind = "struct" -> Encoded(<<"{", "}", "\n">>)
      [] v.kind = "slice" ->
           Encoded(IF v.val = "nil" THEN <<"n", "u", "l", "l", "\n">> ELSE <<"[", "]", "\n">>)
      [] v.kind \in {"ptr", "interface"} ->
           Encoded(IF v.val \in {"nil", "nilptr"} THEN <<"n", "u", "l", "l", "\n">>
                   ELSE <<"{", "}", "\n">>)
      [] OTHER -> [err |-> PlainErr("json: unsupported type"), bytes |-> <<>>]

\* ------------------------------------------------------------ Path
\* NewPath: the segments of a template; a leading ':' marks an argument.
NewPath(t) ==
    [i \in DOMAIN Split(t) |->
        LET seg == Split(t)[i]
        IN IF Head(seg) = ":" THEN [arg |-> TRUE, name |-> Tail(seg)]
           ELSE [arg |-> FALSE, name |-> seg]]

NumArgs(p) == Cardinality({i \in DOMAIN p : p[i].arg})

\* ------------------------------------------------------------ Route
\* A handler's reflect.Type: its Kind and, for a func, its input and output
\* kinds ("error" is the error interface type).
HandlerType(k, in, out) == [kind |-> k, In |-> in, Out |-> out]

\* A Route as constructed: the exported fields, the derived ones zero
\* (handlerSet: handler and handlerType hold the reflection of Handler).
RouteLit(path, method, handler) ==
    [Path |-> NewPath(path), Method |-> method, Handler |-> handler, handlerSet |-> FALSE,
     inBody |-> 0, outBody |-> 0, outError |-> 0, panic |-> ""]

\* Route.init, first part: handler, handlerType and the test of its Kind.
initHandler(route) ==
    [route EXCEPT !.handlerSet = TRUE,
                  !.panic = IF route.Handler.kind # "func" THEN "invalid handler type" ELSE ""]

\* The arity tests with the body argument forgotten.
arityPanicNoBody(pathArgs, handlerArgs) ==
    IF pathArgs < handlerArgs THEN "not enough path arguments"
    ELSE IF pathArgs > handlerArgs THEN "too many path arguments"
    ELSE ""

arityPanic(pathArgs, handlerArgs) ==
    IF pathArgs < handlerArgs - 1 THEN "not enough path arguments"
    ELSE IF pathArgs > handlerArgs THEN "too many path arguments"
    ELSE ""

\* Route.init, second part: the arity tests, inBody, and the test of NumOut.
initArity(route) ==
    LET pathArgs == NumArgs(route.Path)
        handlerArgs == Len(route.Handler.In)
        inBody == IF pathArgs < handlerArgs THEN handlerArgs ELSE route.inBody
    IN IF arityPanic(pathArgs, handlerArgs) # ""
       THEN [route EXCEPT !.panic = arityPanic(pathArgs, handlerArgs)]
       ELSE IF Len(route.Handler.Out) > 2
            THEN [route EXCEPT !.inBody = inBody, !.panic = "too many return arguments"]
            ELSE [route EXCEPT !.inBody = inBody]

\* Route.init, third part: outBody and outError are reset.
initReset(route) == [route EXCEPT !.outBody = -1, !.outError = -1]

\* The loop over the handler's outputs in Route.init, from output i (0-based).
RECURSIVE outLoop(_, _, _, _)
outLoop(out, i, outBody, outError) ==
    IF i >= Len(out) THEN [outBody |-> outBody, outError |-> outError, panic |-> ""]
    ELSE IF out[i + 1] = "error"
         THEN (IF outError >= 0
               THEN [outBody |-> outBody, outError |-> outError,
                     panic |-> "too many error return"]
               ELSE outLoop(out, i + 1, outBody, i))
         ELSE (IF outBody >= 0
               THEN [outBody |-> outBody, outError |-> outError,
                     panic |-> "too many normal return"]
               ELSE outLoop(out, i + 1, i, outError))

\* Route.init, last part: the output slots.
initOutputs(route) ==
    LET outs == outLoop(route.Handler.Out, 0, route.outBody, route.outError)
    IN [route EXCEPT !.outBody = outs.outBody, !.outError = outs.outError,
                     !.panic = outs.panic]

\* Route.init: the route with its derived fields, and the panic it raised.
init(route) ==
    LET a == initHandler(route)
        b == initArity(a)
    IN IF a.panic # "" THEN a
       ELSE IF b.panic # "" THEN b
       ELSE initOutputs(initReset(b))

\* Route.parseArg
parseArg(data, k) ==
    CASE k = "string" -> ParsedOk(Val(k, data))
      [] k = "bool" -> ParseBool(data)
      [] k \in IntKinds -> ParseInt(data, k)
      [] k \in UintKinds -> ParseUint(data, k)
      [] k \in FloatKinds -> ParseFloat(data, k)
      [] OTHER -> ParsedErr(k, "unsupported argument type")

\* isNil taking every zero value for empty.
isNilZero(obj) == obj = Zero(obj.kind)

\* Route.isNil
isNil(obj) ==
    CASE obj.kind = "string" -> Len(obj.val) = 0
      [] obj.kind \in {"chan", "interface", "map", "ptr", "slice"} -> obj.val = "nil"
      [] OTHER -> FALSE

\* The binding loop without its test of err.
RECURSIVE bindLenient(_, _, _, _, _)
bindLenient(ht, args, body, i, in) ==
    IF i >= Len(ht.In) THEN [err |-> NilErr, in |-> in]
    ELSE LET r == IF i < Len(args) THEN parseArg(args[i + 1], ht.In[i + 1])
                  ELSE Decode(body, ht.In[i + 1])
         IN bindLenient(ht, args, body, i + 1, Append(in, r.value))

\* The binding loop of Route.invoke, from input position i (0-based).
RECURSIVE bind(_, _, _, _, _)
bind(ht, args, body, i, in) ==
    IF i >= Len(ht.In) THEN [err |-> NilErr, in |-> in]
    ELSE LET r == IF i < Len(args) THEN parseArg(args[i + 1], ht.In[i + 1])
                  ELSE Decode(body, ht.In[i + 1])
         IN IF r.err # NilErr THEN [err |-> r.err, in |-> in]
            ELSE bind(ht, args, body, i + 1, Append(in, r.value))

Invoked(called, in, out, ret, err) ==
    [called |-> called, in |-> in, out |-> out, ret |-> ret, err |-> err]

\* The output tests in the other order: the body before the error.
afterCallBodyFirst(route, in, out) ==
    IF route.outBody >= 0 /\ ~isNil(out[route.outBody + 1])
       /\ Encode(out[route.outBody + 1]).err = NilErr
    THEN Invoked(TRUE, in, out, Encode(out[route.outBody + 1]).bytes, NoError)
    ELSE IF route.outError >= 0 /\ out[route.outError + 1] # NilErr
    THEN Invoked(TRUE, in, out, <<>>, RestError("HandlerError", out[route.outError + 1]))
    ELSE Invoked(TRUE, in, out, <<>>, NoError)

\* What Route.invoke does after route.handler.Call(in) returned out.
afterCall(route, in, out) ==
    IF route.outError >= 0 /\ out[route.outError + 1] # NilErr
    THEN Invoked(TRUE, in, out, <<>>, RestError("HandlerError", out[route.outError + 1]))
    ELSE IF route.outBody >= 0 /\ ~isNil(out[route.outBody + 1])
    THEN (IF Encode(out[route.outBody + 1]).err # NilErr
          THEN Invoked(TRUE, in, out, <<>>,
                       RestError("MarshalError", Encode(out[route.outBody + 1]).err))
          ELSE Invoked(TRUE, in, out, Encode(out[route.outBody + 1]).bytes, NoError))
    ELSE Invoked(TRUE, in, out, <<>>, NoError)

\* Route.invoke; out is what the handler returns if it is called.
invoke(route, args, body, out) ==
    LET b == bind(route.Handler, args, body, 0, <<>>)
    IN IF b.err # NilErr
       THEN Invoked(FALSE, b.in, <<>>, <<>>, RestError("UnmarshalError", b.err))
       ELSE afterCall(route, b.in, out)

\* ------------------------------------------------------------ router
\* A path's shape: its literals, with every argument reduced to a placeholder.
Shape(p) == [i \in DOMAIN p |-> IF p[i].arg THEN [arg |-> TRUE, name |-> <<>>] ELSE p[i]]

RouteKey(r) == <<r.Method, Shape(r.Path)>>

\* router.Add: one route per method and shape, a later one replacing an earlier.
routerAdd(rts, r) == {q \in rts : RouteKey(q) # RouteKey(r)} \cup {r}

NoRoute == RouteLit(<<>>, "", HandlerType("", <<>>, <<>>))
NotFound == [found |-> FALSE, route |-> NoRoute, args |-> <<>>]

\* The walk of the per-method trie: a literal branch before the argument branch.
RECURSIVE walk(_, _, _, _, _)
walk(rts, tokens, i, node, args) ==
    LET lit == Append(node, [arg |-> FALSE, name |-> tokens[i]])
        arg == Append(node, [arg |-> TRUE, name |-> <<>>])
        has(n) == \E q \in rts : Len(q.Path) >= Len(n) /\ SubSeq(Shape(q.Path), 1, Len(n)) = n
    IN IF i > Len(tokens)
       THEN (IF \E q \in rts : Shape(q.Path) = node
             THEN [found |-> TRUE, route |-> CHOOSE q \in rts : Shape(q.Path) = node,
                   args |-> args]
             ELSE NotFound)
       ELSE IF has(lit) THEN walk(rts, tokens, i + 1, lit, args)
       ELSE IF has(arg) THEN walk(rts, tokens, i + 1, arg, Append(args, tokens[i]))
       ELSE NotFound

\* router.Route
routerRoute(rts, method, sub) ==
    walk({q \in rts : q.Method = method}, Split(sub), 1, <<>>, <<>>)

\* ------------------------------------------------------------ Mux
StatusOK == 200
StatusNoContent == 204
StatusBadRequest == 400

\* Mux.init: the normalised Root.
muxinit(root) == IF Len(root) = 0 THEN <<"/">> ELSE <<"/">> \o Trim(root, "/")

\* Mux.route
muxRoute(root, rts, method, path) ==
    IF HasPrefix(path, root)
    THEN routerRoute(rts, method, SubSeq(path, Len(root) + 1, Len(path)))
    ELSE NotFound

Request(method, path, ctype, body, readErr) ==
    [method |-> method, path |-> path, ctype |-> ctype, body |-> body, readErr |-> readErr]

\* What the ResponseWriter received: the status, the Content-Type header, the
\* bytes of writer.Write and the text of http.Error.
Response(status, ctype, payload, message) ==
    [status |-> status, ctype |-> ctype, payload |-> payload, message |-> message]

NotInvoked == Invoked(FALSE, <<>>, <<>>, <<>>, NoError)

\* One run of ServeHTTP: the request, the resolution, the invocation, the
\* error handed to respondError, the calls of ErrorFunc and what it returned,
\* the response, and the order in which these happened.
Served(req, m, inv, err, efCalls, efRet, resp, events) ==
    [served |-> TRUE, req |-> req, found |-> m.found, route |-> m.route, args |-> m.args,
     inv |-> inv, err |-> err, efCalls |-> efCalls, efRet |-> efRet, resp |-> resp,
     events |-> events]

NoRequest ==
    [served |-> FALSE, req |-> Request("", <<>>, "", <<>>, FALSE), found |-> FALSE,
     route |-> NoRoute, args |-> <<>>, inv |-> NotInvoked, err |-> NoError,
     efCalls |-> <<>>, efRet |-> NilErr, resp |-> Response(0, "", <<>>, ""),
     events |-> <<>>]

\* What an ErrorFunc may return for err: err itself, another error, or a
\* CodedError.
ErrorFuncReturns(err) == {err, PlainErr("rewritten"), CodedErr(503, "unavailable")}

\* respondError without the call of ErrorFunc.
respondErrorNoFunc(ef, errType, code, err, ret) ==
    [efCalls |-> <<>>, efRet |-> NilErr,
     resp |-> Response(IF err.kind = "coded" THEN err.code ELSE code,
                       "text/plain; charset=utf-8", <<>>, err.msg),
     events |-> <<"http.Error">>]

\* Mux.respondError; ret is what ErrorFunc returns when it is set.
respondError(ef, errType, code, err, ret) ==
    LET e == IF ef THEN ret ELSE err
    IN [efCalls |-> IF ef THEN <<RestError(errType, err)>> ELSE <<>>,
        efRet |-> IF ef THEN ret ELSE NilErr,
        resp |-> Response(IF e.kind = "coded" THEN e.code ELSE code,
                          "text/plain; charset=utf-8", <<>>, e.msg),
        events |-> IF ef THEN <<"ErrorFunc", "http.Error">> ELSE <<"http.Error">>]

\* ServeHTTP's exit through respondError.
serveError(ef, req, m, inv, errType, err, ret, before) ==
    LET r == respondError(ef, errType, StatusBadRequest, err, ret)
    IN Served(req, m, inv, RestError(errType, err), r.efCalls, r.efRet, r.resp,
              before \o r.events)

\* A miss answered through respondError.
serveMissAsError(ef, req, m, dh) ==
    serveError(ef, req, m, NotInvoked, "UnknownRoute", PlainErr("unknown path"),
               PlainErr("unknown path"), <<"route">>)

\* ServeHTTP when mux.route reports an error: the DefaultHandler answers.
serveMiss(ef, req, m, dh) ==
    Served(req, m, NotInvoked, NoError, <<>>, NilErr, Response(dh, "", <<>>, "DefaultHandler"),
           <<"route", "DefaultHandler">>)

\* The content-type test of ServeHTTP.
contentTypeRejected(req) == req.ctype # "application/json"

\* ServeHTTP after a successful invoke.
serveResult(req, m, inv) ==
    Served(req, m, inv, NoError, <<>>, NilErr,
           IF Len(inv.ret) = 0 THEN Response(StatusNoContent, "", <<>>, "")
           ELSE Response(StatusOK, "application/json", inv.ret, ""),
           <<"route", "ReadAll", "bind", "Call", "Write">>)

\* ------------------------------------------------------------ inputs
Methods == {"GET", "POST"}

\* Registrations offered to AddRoute(path, method, handler).
GoodRoutes ==
    { <<<<"/", "a", "/", ":", "i", "d">>, "GET",
        HandlerType("func", <<"int8">>, <<"struct", "error">>)>>,
      <<<<"/", "a", "/", "b">>, "GET", HandlerType("func", <<>>, <<"string">>)>>,
      <<<<"/", "a">>, "POST", HandlerType("func", <<"struct">>, <<"error">>)>>,
      <<<<"/", "a", "/", ":", "i", "d">>, "POST",
        HandlerType("func", <<"uint8", "string">>, <<"error", "ptr">>)>>,
      <<<<"/", "b">>, "GET", HandlerType("func", <<>>, <<"chan">>)>>,
      <<<<"/", "b", "/", ":", "x">>, "POST", HandlerType("func", <<"slice">>, <<"error">>)>>,
      <<<<"/", "a", "/", ":", "i", "d", "/", ":", "f">>, "GET",
        HandlerType("func", <<"int16", "bool">>, <<"interface">>)>> }

BadRoutes ==
    { <<<<"/", "a", "/", ":", "i", "d">>, "GET", HandlerType("func", <<>>, <<"string">>)>>,
      <<<<"/", "b">>, "GET", HandlerType("func", <<"string", "string">>, <<>>)>>,
      <<<<"/", "b">>, "GET", HandlerType("string", <<>>, <<>>)>>,
      <<<<"/", "b">>, "GET", HandlerType("func", <<>>, <<"string", "error", "error">>)>>,
      <<<<"/", "b">>, "GET", HandlerType("func", <<>>, <<"error", "error">>)>>,
      <<<<"/", "b">>, "GET", HandlerType("func", <<>>, <<"string", "string">>)>> }

Registrations == GoodRoutes \cup BadRoutes

\* Values of Mux.Root before Init.
Roots == { <<>>, <<"r", "/">> }

\* httpReq.URL.Path
RequestPaths ==
    { <<"/", "a", "/", "7">>, <<"/", "a", "/", "3", "0", "0">>, <<"/", "a", "/", "b">>,
      <<"/", "a">>, <<"/", "b">>, <<"/", "b", "/", "7">>, <<"/", "a", "/", "7", "/", "t">>,
      <<"/", "a", "/", "x", "/", "7">>, <<"/", "r", "/", "a", "/", "7">>,
      <<"/", "r", "a", "/", "7">>, <<"/", "c">> }

\* The request's Content-Type header ("" when absent).
ContentTypes == {"application/json", "application/json; charset=utf-8", ""}

\* The media type of a Content-Type header is JSON.
JSONTyped(ctype) == ctype \in {"application/json", "application/json; charset=utf-8"}

\* What ioutil.ReadAll(httpReq.Body) yields: the body's bytes, or an error.
BodyReads ==
    { [body |-> b, err |-> FALSE] :
        b \in { <<>>, <<"7">>, <<"\"", "a", "\"">>, <<"{", "}">>, <<"{">> } }
    \cup { [body |-> <<>>, err |-> TRUE] }

\* The status with which the DefaultHandler may answer.
DefaultHandlerStatus == {404, 200}

\* The values a handler may return in an output of kind k.
OutValues(k) ==
    CASE k = "error" -> {NilErr, PlainErr("boom"), CodedErr(404, "no such item")}
      [] k = "string" -> {Val(k, <<>>), Val(k, <<"a">>)}
      [] k = "struct" -> {Val(k, "zero")}
      [] k = "ptr" -> {Val(k, "nil"), Val(k, "item")}
      [] k = "chan" -> {Val(k, "nil"), Val(k, "open")}
      [] k = "interface" -> {Val(k, "nil"), Val(k, "nilptr"), Val(k, "item")}
      [] k = "slice" -> {Val(k, "nil"), Val(k, "empty")}
      [] k \in IntKinds \cup UintKinds -> {Val(k, 0), Val(k, 7)}
      [] k = "bool" -> {Val(k, FALSE)}

\* The results of route.handler.Call(in) for a handler with outputs out.
HandlerReturns(out) ==
    IF Len(out) = 0 THEN {<<>>}
    ELSE IF Len(out) = 1 THEN {<<v>> : v \in OutValues(out[1])}
    ELSE {<<v, w>> : v \in OutValues(out[1]), w \in OutValues(out[2])}

ErrorFuncChoices(ef, err) == IF ef THEN ErrorFuncReturns(err) ELSE {err}

\* ------------------------------------------------------------ state
VARIABLES
    muxRoot,          \* Mux.Root
    muxInitialized,   \* Mux.initialize has run
    errorFunc,        \* Mux.ErrorFunc # nil
    routes,           \* Mux.router: the routes added
    fatal,            \* the panic that aborted a registration ("" if none)
    last              \* the ServeHTTP call being answered, or NoRequest

srvVars == <<muxRoot, muxInitialized, errorFunc, routes, fatal, last>>

VARIABLES
    route,            \* the Route on which Init is called concurrently
    onceDone,         \* Route.initialize: its done flag
    onceMutex,        \* Route.initialize: the caller holding its mutex, 0 if free
    pc,               \* where each caller of Route.Init stands
    initRuns,         \* how many times Route.init was entered
    initActive,       \* a run of Route.init is under way
    snapshot          \* the route as the first finished run of Route.init left it

iniVars == <<route, onceDone, onceMutex, pc, initRuns, initActive, snapshot>>

VARIABLES
    response,         \* the client's Response, once Send returned
    getBody           \* the call of Response.GetBody and what it returned

cliVars == <<response, getBody>>

vars == <<srvVars, iniVars, cliVars>>

Callers == 1..MaxCallers

NoResponse == [sent |-> FALSE, Error |-> NoError, Code |-> 0, ctype |-> "", Body |-> <<>>]
NoGetBody == [called |-> FALSE, obj |-> "", err |-> NoError]

srvIdle ==
    /\ muxRoot = <<>>
    /\ muxInitialized = FALSE
    /\ errorFunc = FALSE
    /\ routes = {}
    /\ fatal = ""
    /\ last = NoRequest

iniIdle ==
    /\ route = NoRoute
    /\ onceDone = FALSE
    /\ onceMutex = 0
    /\ pc = [c \in Callers |-> "idle"]
    /\ initRuns = 0
    /\ initActive = FALSE
    /\ snapshot = NoRoute

cliIdle ==
    /\ response = NoResponse
    /\ getBody = NoGetBody

\* ------------------------------------------------------------ the mux
Init ==
    /\ muxRoot \in Roots
    /\ muxInitialized = FALSE
    /\ errorFunc \in BOOLEAN
    /\ routes = {}
    /\ fatal = ""
    /\ last = NoRequest
    /\ iniIdle
    /\ cliIdle

\* The root after mux.Init().
rootNow == IF muxInitialized THEN muxRoot ELSE muxinit(muxRoot)

\* AddRoute(path, method, handler): DefaultMux.AddRoute(NewRoute(...)). A panic
\* of NewRoute aborts the program.
AddRoute ==
    /\ fatal = ""
    /\ ~last.served
    /\ Cardinality(routes) < MaxRoutes
    /\ \E reg \in Registrations :
         LET r == init(RouteLit(reg[1], reg[2], reg[3]))
         IN IF r.panic # ""
            THEN /\ fatal' = r.panic
                 /\ UNCHANGED <<muxRoot, muxInitialized, routes>>
            ELSE /\ muxRoot' = rootNow
                 /\ muxInitialized' = TRUE
                 /\ routes' = routerAdd(routes, r)
                 /\ fatal' = fatal
    /\ UNCHANGED <<errorFunc, last, iniVars, cliVars>>

\* Mux.ServeHTTP for one request.
ServeHTTP ==
    /\ fatal = ""
    /\ ~last.served
    /\ muxRoot' = rootNow
    /\ muxInitialized' = TRUE
    /\ \E method \in Methods, path \in RequestPaths, ctype \in ContentTypes, rd \in BodyReads :
         LET req == Request(method, path, ctype, rd.body, rd.err)
             m == muxRoute(rootNow, routes, method, path)
         IN IF ~m.found
            THEN \E dh \in DefaultHandlerStatus : last' = serveMiss(errorFunc, req, m, dh)
            ELSE IF contentTypeRejected(req)
            THEN \E ret \in ErrorFuncChoices(errorFunc, PlainErr("unsupported content type")) :
                   last' = serveError(errorFunc, req, m, NotInvoked, "UnsupportedContentType",
                                      PlainErr("unsupported content type"), ret, <<"route">>)
            ELSE IF req.readErr
            THEN \E ret \in ErrorFuncChoices(errorFunc, PlainErr("read failed")) :
                   last' = serveError(errorFunc, req, m, NotInvoked, "ReadBodyError",
                                      PlainErr("read failed"), ret, <<"route", "ReadAll">>)
            ELSE \E out \in HandlerReturns(m.route.Handler.Out) :
                   LET inv == invoke(m.route, m.args, req.body, out)
                   IN IF inv.err # NoError
                      THEN \E ret \in ErrorFuncChoices(errorFunc, inv.err.Sub) :
                             last' = serveError(errorFunc, req, m, inv, inv.err.Type,
                                                inv.err.Sub, ret,
                                                <<"route", "ReadAll", "bind">>
                                                  \o IF inv.called THEN <<"Call">> ELSE <<>>)
                      ELSE last' = serveResult(req, m, inv)
    /\ UNCHANGED <<errorFunc, routes, fatal, iniVars, cliVars>>

\* The server loop of Serve: the exchange is over, the next request may come.
Close ==
    /\ last.served
    /\ last' = NoRequest
    /\ UNCHANGED <<muxRoot, muxInitialized, errorFunc, routes, fatal, iniVars, cliVars>>

Next == AddRoute \/ ServeHTTP \/ Close

Spec == Init /\ [][Next]_vars

\* ------------------------------------------------------------ Route.Init
\* The template /a/:x/.../:x with n arguments.
RECURSIVE PathOfArgs(_)
PathOfArgs(n) == IF n = 0 THEN <<"/", "a">> ELSE PathOfArgs(n - 1) \o <<"/", ":", "x">>

\* The output lists of the handlers on which Init is tried.
OutLists ==
    { <<>>, <<"error">>, <<"string">>, <<"string", "error">>, <<"error", "string">>,
      <<"error", "error">>, <<"string", "string">>, <<"string", "error", "error">> }

\* The routes on which Init is tried: every count of path arguments and of
\* handler inputs within the bounds, and a handler that is no function.
InitRoutes ==
    { RouteLit(PathOfArgs(p), "GET", HandlerType("func", [i \in 1..n |-> "string"], out)) :
        p \in 0..MaxPathArgs, n \in 0..MaxIn, out \in OutLists }
    \cup { RouteLit(PathOfArgs(1), "GET", HandlerType("string", <<>>, <<>>)) }

InitInit ==
    /\ route \in InitRoutes
    /\ onceDone = FALSE
    /\ onceMutex = 0
    /\ pc = [c \in Callers |-> "idle"]
    /\ initRuns = 0
    /\ initActive = FALSE
    /\ snapshot = NoRoute
    /\ srvIdle
    /\ cliIdle

\* Init without the guard: init runs at every call.
initGuardNone(done) == TRUE

\* Route.Init's guard, route.initialize.Do: init is to run while done is unset.
initGuard(done) == ~done

\* Route.Init is called: Once.Do reads done.
InitCall(c) ==
    /\ pc[c] = "idle"
    /\ pc' = [pc EXCEPT ![c] = IF initGuard(onceDone) THEN "doSlow" ELSE "returned"]
    /\ UNCHANGED <<route, onceDone, onceMutex, initRuns, initActive, snapshot>>
    /\ UNCHANGED <<srvVars, cliVars>>

\* Once.doSlow takes the mutex and reads done again: init is entered, or the
\* mutex is released and Init returns.
InitLock(c) ==
    /\ pc[c] = "doSlow"
    /\ onceMutex = 0
    /\ IF initGuard(onceDone)
       THEN /\ onceMutex' = c
            /\ pc' = [pc EXCEPT ![c] = "initHandler"]
            /\ initRuns' = initRuns + 1
            /\ initActive' = TRUE
       ELSE /\ pc' = [pc EXCEPT ![c] = "returned"]
            /\ UNCHANGED <<onceMutex, initRuns, initActive>>
    /\ UNCHANGED <<route, onceDone, snapshot>>
    /\ UNCHANGED <<srvVars, cliVars>>

\* One part of Route.init; a panic ends the run.
InitStep(c) ==
    /\ pc[c] \in {"initHandler", "initArity", "initReset", "initOutputs"}
    /\ route' = CASE pc[c] = "initHandler" -> initHandler(route)
                  [] pc[c] = "initArity" -> initArity(route)
                  [] pc[c] = "initReset" -> initReset(route)
                  [] pc[c] = "initOutputs" -> initOutputs(route)
    /\ pc' = [pc EXCEPT ![c] =
                IF route'.panic # "" \/ pc[c] = "initOutputs" THEN "unlock"
                ELSE CASE pc[c] = "initHandler" -> "initArity"
                       [] pc[c] = "initArity" -> "initReset"
                       [] pc[c] = "initReset" -> "initOutputs"]
    /\ initActive' = (pc'[c] # "unlock")
    /\ UNCHANGED <<onceDone, onceMutex, initRuns, snapshot>>
    /\ UNCHANGED <<srvVars, cliVars>>

\* The deferred calls of Once.doSlow: done is set and the mutex released, also
\* when init panicked; the panic then reaches the caller of Init.
InitUnlock(c) ==
    /\ pc[c] = "unlock"
    /\ onceDone' = TRUE
    /\ onceMutex' = 0
    /\ snapshot' = IF onceDone THEN snapshot ELSE route
    /\ pc' = [pc EXCEPT ![c] = IF route.panic # "" THEN "panicked" ELSE "returned"]
    /\ UNCHANGED <<route, initRuns, initActive>>
    /\ UNCHANGED <<srvVars, cliVars>>

InitNext == \E c \in Callers : InitCall(c) \/ InitLock(c) \/ InitStep(c) \/ InitUnlock(c)

SpecInit == InitInit /\ [][InitNext]_vars

\* ------------------------------------------------------------ client
StatusNotFound == 404

\* The ways in which Request.Send ends.
SendOutcomes == {"SetBody failed", "NewRequest failed", "Do failed", "ReadAll failed", "ok"}

ResponseCodes == {100, 200, 201, 204, 301, 400, 404, 500}

ResponseContentTypes == {"application/json", "text/plain; charset=utf-8"}

ResponseBodies == { <<>>, <<"7">>, <<"{", "}">>, <<"{">> }

\* The obj handed to GetBody: nil, or a pointer to a value of that kind.
Objects == {"nil", "struct", "int8", "string"}

\* Request.Send and Request.send.
send(outcome, code, ctype, body) ==
    CASE outcome = "SetBody failed" ->
           [sent |-> TRUE, Error |-> RestError("MarshalError", PlainErr("json: unsupported type")),
            Code |-> 0, ctype |-> "", Body |-> <<>>]
      [] outcome = "NewRequest failed" ->
           [sent |-> TRUE, Error |-> RestError("NewRequestError", PlainErr("bad url")),
            Code |-> 0, ctype |-> "", Body |-> <<>>]
      [] outcome = "Do failed" ->
           [sent |-> TRUE, Error |-> RestError("SendRequestError", PlainErr("connection refused")),
            Code |-> 0, ctype |-> "", Body |-> <<>>]
      [] outcome = "ReadAll failed" ->
           [sent |-> TRUE, Error |-> RestError("ReadBodyError", PlainErr("unexpected EOF")),
            Code |-> code, ctype |-> ctype, Body |-> body]
      [] outcome = "ok" ->
           [sent |-> TRUE, Error |-> NoError, Code |-> code, ctype |-> ctype, Body |-> body]

\* json.Unmarshal(b, obj)
Unmarshal(b, obj) ==
    IF obj = "nil" THEN ParsedErr("ptr", "json: Unmarshal(nil)")
    ELSE IF b = <<>> THEN ParsedErr(obj, "unexpected end of JSON input")
    ELSE Decode(b, obj)

\* errors.New(string(resp.Body))
BodyError(b) == [kind |-> "plain", msg |-> b, code |-> 0]

\* Response.GetBody; err is its named result, nil until a branch assigns it.
GetBody(resp, obj) ==
    LET err == NoError
    IN IF resp.Error # NoError THEN resp.Error
       ELSE IF resp.Code = StatusNotFound THEN RestError("UnknownRoute", BodyError(resp.Body))
       ELSE IF resp.Code >= 400 THEN RestError("EndpointError", BodyError(resp.Body))
       ELSE IF resp.Code < 200 /\ resp.Code >= 300
            THEN RestError("UnexpectedStatusCode", PlainErr("unexpected status code"))
       ELSE IF resp.Code = StatusNoContent
            THEN (IF obj = "nil" THEN err
                  ELSE RestError("UnexpectedStatusCode", PlainErr("unexpected status code: 204")))
       ELSE IF resp.ctype # "application/json"
            THEN RestError("UnsupportedContentType", PlainErr("unsupported content-type"))
       ELSE IF err # NoError THEN RestError("UnmarshalError", Unmarshal(resp.Body, obj).err)
       ELSE err

ClientInit ==
    /\ response = NoResponse
    /\ getBody = NoGetBody
    /\ srvIdle
    /\ iniIdle

Send ==
    /\ ~response.sent
    /\ \E outcome \in SendOutcomes, code \in ResponseCodes, ctype \in ResponseContentTypes,
          body \in ResponseBodies :
         response' = send(outcome, code, ctype, body)
    /\ UNCHANGED <<getBody, srvVars, iniVars>>

CallGetBody ==
    /\ response.sent
    /\ ~getBody.called
    /\ \E obj \in Objects :
         getBody' = [called |-> TRUE, obj |-> obj, err |-> GetBody(response, obj)]
    /\ UNCHANGED <<response, srvVars, iniVars>>

ClientNext == Send \/ CallGetBody

SpecClient == ClientInit /\ [][ClientNext]_vars

\* ------------------------------------------------------------ properties
\* The error the handler returned in the call recorded in l (nil if it has no
\* error output).
handlerError(l) ==
    IF l.route.outError >= 0 THEN l.inv.out[l.route.outError + 1] ELSE NilErr

\* ServeHTTP reached route.invoke.
invokeReached(l) ==
    l.served /\ l.found /\ l.req.ctype = "application/json" /\ ~l.req.readErr

\* "Empty" as the specification words it: the empty string, or a nil pointer,
\* slice, map, interface or channel.
EmptyValue(v) ==
    \/ v.kind = "string" /\ v.val = <<>>
    \/ v.kind \in {"ptr", "slice", "map", "interface", "chan"} /\ v.val = "nil"

\* The position of event e in the sequence es, 0 if it is absent.
eventAt(es, e) ==
    IF \E i \in DOMAIN es : es[i] = e THEN CHOOSE i \in DOMAIN es : es[i] = e ELSE 0

\* C1: when a handler with an error output and a body output is called and
\* returns a non-nil error, invoke returns no body and a HandlerError wrapping
\* that error, whatever the body output is.
C1_ErrorPrecedence ==
    (/\ last.served
     /\ last.inv.called
     /\ last.route.outError >= 0
     /\ last.route.outBody >= 0
     /\ handlerError(last) # NilErr)
    => /\ last.inv.ret = <<>>
       /\ last.inv.err = RestError("HandlerError", handlerError(last))

\* A handler returned a non-nil error together with a non-empty body.
C1_Witness ==
    /\ last.served
    /\ last.inv.called
    /\ last.route.outError >= 0
    /\ last.route.outBody >= 0
    /\ handlerError(last) # NilErr
    /\ ~EmptyValue(last.inv.out[last.route.outBody + 1])
    /\ last.inv.err.Type = "HandlerError"

\* C2: for a function handler, Route.init panics on the input arity exactly
\* when the number of inputs is neither the path's argument count nor that
\* count plus one.
C2_ArityValidation ==
    (onceDone /\ route.Handler.kind = "func")
    => ((route.panic \in {"not enough path arguments", "too many path arguments"})
        <=> ~(\/ Len(route.Handler.In) = NumArgs(route.Path)
              \/ Len(route.Handler.In) = NumArgs(route.Path) + 1))

\* Init accepted a handler with one input more than the path has arguments.
C2_Witness ==
    /\ onceDone
    /\ route.panic = ""
    /\ NumArgs(route.Path) >= 1
    /\ Len(route.Handler.In) = NumArgs(route.Path) + 1

\* C3: no route that was constructed answers a request with an error caused
\* by an unsupported type of a path-bound argument.
C3_TypesCheckedAtConstruction ==
    last.served
    => ~(/\ last.inv.err.Type = "UnmarshalError"
         /\ last.inv.err.Sub = PlainErr("unsupported argument type"))

\* C4, as stated: after a call whose handler returned no error, an absent or
\* empty body output gives an empty body and the no-content status without
\* payload; any other body output is returned JSON-encoded and written with
\* Content-Type application/json.
C4_EmptyOrEncoded ==
    (invokeReached(last) /\ last.inv.called /\ handlerError(last) = NilErr)
    => IF last.route.outBody < 0 \/ EmptyValue(last.inv.out[last.route.outBody + 1])
       THEN /\ last.inv.ret = <<>>
            /\ last.inv.err = NoError
            /\ last.resp = Response(StatusNoContent, "", <<>>, "")
       ELSE /\ last.inv.err = NoError
            /\ last.inv.ret = Encode(last.inv.out[last.route.outBody + 1]).bytes
            /\ last.resp = Response(StatusOK, "application/json", last.inv.ret, "")

\* C4, amended: as C4, but a body output that is not empty and cannot be
\* encoded gives no body and a MarshalError, answered as an error.
C4_EmptyOrEncodedOrMarshalError ==
    (invokeReached(last) /\ last.inv.called /\ handlerError(last) = NilErr)
    => IF last.route.outBody < 0 \/ EmptyValue(last.inv.out[last.route.outBody + 1])
       THEN /\ last.inv.ret = <<>>
            /\ last.inv.err = NoError
            /\ last.resp = Response(StatusNoContent, "", <<>>, "")
       ELSE IF Encode(last.inv.out[last.route.outBody + 1]).err = NilErr
       THEN /\ last.inv.err = NoError
            /\ last.inv.ret = Encode(last.inv.out[last.route.outBody + 1]).bytes
            /\ Len(last.inv.ret) > 0
            /\ last.resp = Response(StatusOK, "application/json", last.inv.ret, "")
       ELSE /\ last.inv.ret = <<>>
            /\ last.inv.err = RestError("MarshalError",
                                        Encode(last.inv.out[last.route.outBody + 1]).err)
            /\ last.err = last.inv.err
            /\ last.resp.payload = <<>>
            /\ last.resp.ctype # "application/json"

\* A zero value that is not "empty" was encoded and written.
C4_Witness ==
    /\ invokeReached(last)
    /\ last.inv.called
    /\ handlerError(last) = NilErr
    /\ last.route.outBody >= 0
    /\ last.inv.out[last.route.outBody + 1] = Zero("struct")
    /\ last.resp = Response(StatusOK, "application/json", <<"{", "}", "\n">>, "")

\* What binding input position i of the recorded call yields by itself.
boundAt(l, i) ==
    IF i <= Len(l.args) THEN parseArg(l.args[i], l.route.Handler.In[i])
    ELSE Decode(l.req.body, l.route.Handler.In[i])

\* C5: if a path argument fails to parse or the body fails to decode, invoke
\* returns no body and an UnmarshalError wrapping that failure (the first one)
\* and the handler is not called; the handler is called only after binding,
\* with every input bound, path arguments in handler-argument order.
C5_BindBeforeCall ==
    /\ invokeReached(last)
       => LET n == Len(last.route.Handler.In)
              bad == {i \in 1..n : boundAt(last, i).err # NilErr}
          IN IF bad # {}
             THEN /\ ~last.inv.called
                  /\ last.inv.ret = <<>>
                  /\ last.inv.err =
                       RestError("UnmarshalError",
                                 boundAt(last, CHOOSE i \in bad : \A j \in bad : i <= j).err)
                  /\ eventAt(last.events, "Call") = 0
             ELSE /\ last.inv.called
                  /\ last.inv.in = [i \in 1..n |-> boundAt(last, i).value]
                  /\ 0 < eventAt(last.events, "bind")
                  /\ eventAt(last.events, "bind") < eventAt(last.events, "Call")
    /\ (last.inv.called \/ eventAt(last.events, "Call") > 0) => invokeReached(last)

\* A request whose path arguments parse and whose body does not decode.
C5_Witness ==
    /\ invokeReached(last)
    /\ Len(last.args) = 1
    /\ Len(last.route.Handler.In) = 2
    /\ boundAt(last, 1).err = NilErr
    /\ boundAt(last, 2).err # NilErr
    /\ ~last.inv.called
    /\ last.inv.err.Type = "UnmarshalError"

C7_RejectedIffBodyNotJSON ==
    (last.served /\ last.found)
    => ((last.err.Type = "UnsupportedContentType")
        <=> (Len(last.req.body) > 0 /\ ~JSONTyped(last.req.ctype)))

C9_InitOnce ==
    /\ initRuns <= 1
    /\ \A c \in Callers :
         pc[c] \in {"returned", "panicked"} => (initRuns = 1 /\ ~initActive /\ onceDone)
    /\ onceDone => route = snapshot
    /\ initActive => onceMutex # 0

\* A caller that passed the first test of done finds init run by another.
C9_Witness ==
    \E c, d \in Callers :
        /\ c # d
        /\ pc[c] = "returned"
        /\ pc[d] = "doSlow"
        /\ onceDone
        /\ route.panic = ""
        /\ route.outError >= 0

\* C10: GetBody returns an UnmarshalError when the response has no transport
\* error, a success status other than 204, Content-Type application/json, and
\* a body that does not decode into obj.
C10_UnmarshalErrorReported ==
    (/\ getBody.called
     /\ response.Error = NoError
     /\ response.Code >= 200
     /\ response.Code < 300
     /\ response.Code # StatusNoContent
     /\ response.ctype = "application/json"
     /\ Unmarshal(response.Body, getBody.obj).err # NilErr)
    => getBody.err.Type = "UnmarshalError"
====
